---- MODULE Spec2Model ----
(***************************************************************************)
(* Model of examples/python/performance-example.py: AnalyticsService, a    *)
(* read path with a Redis cache in front of Postgres materialized views,   *)
(* an asyncio.Semaphore around the view query, and a batch entry point     *)
(* built on asyncio.gather(return_exceptions=True).                        *)
(*                                                                         *)
(* Every get_metric call is a coroutine; the model keeps its position at   *)
(* each await (pc) and its locals.  Time is counted in whole hours.        *)
(* asyncio.CancelledError derives from BaseException (Python >= 3.8; the   *)
(* repository's other example needs >= 3.9), so "except Exception" and     *)
(* isinstance(x, Exception) do not match it.                               *)
(*                                                                         *)
(* The second part models examples/python/security-example.py: the         *)
(* password reset flow (request_password_reset, submit_password_reset) and  *)
(* its RateLimiter, with the users table, each call a coroutine suspended   *)
(* at its awaits.  Its time is counted in minutes.                         *)
(***************************************************************************)
EXTENDS Integers, Sequences, FiniteSets, TLC

VARIABLES
    now,        \* datetime.utcnow(), in hours
    sem,        \* self._query_semaphore._value
    cache,      \* the Redis keyspace: key -> None or <<[value, ttl]>>
    written,    \* history: per key, the data of the latest successful setex since expiry
    pc,         \* per call: the await the coroutine is suspended at
    query,      \* per call: the MetricQuery argument
    strategy,   \* per call: local variable strategy
    data,       \* per call: local variable data (the store's rows)
    result,     \* per call: None or <<the MetricResult returned>>
    exc,        \* per call: None or <<the exception that ended the call>>
    io,         \* history, per call: the I/O operations it issued and the errors they raised
    batch,      \* the batch_get_metrics call: its state, child tasks and return value
    waited,     \* per call: clock ticks spent queued at a saturated semaphore
    clsStart,   \* classification harness: the start_date handed to _get_cache_strategy
    clsOut,     \* classification harness: what _get_cache_strategy returned
    ckQuery,    \* cache key harness: the query handed to _build_cache_key
    ckOut,      \* cache key harness: the keys _build_cache_key returned, call by call
    clock,      \* password reset: datetime.utcnow(), in minutes
    users,      \* password reset: the users table, by email
    attempts,   \* password reset: rate_limiter._attempts, by key
    tokens,     \* password reset: how many tokens generate_reset_token has handed out
    proc,       \* password reset: per call slot, the call running in it
    successes,  \* password reset, history: per token, the submits that returned success
    rlLog       \* rate limiter harness, history: the calls of check_rate_limit made directly

vars == <<now, sem, cache, written, pc, query, strategy, data, result, exc, io,
          batch, waited, clsStart, clsOut, ckQuery, ckOut,
          clock, users, attempts, tokens, proc, successes, rlLog>>

taskVars == <<pc, query, strategy, data, result, exc, io>>
clsVars == <<clsStart, clsOut>>
keyVars == <<ckQuery, ckOut>>
resetVars == <<clock, users, attempts, tokens, proc, successes, rlLog>>

----------------------------------------------------------------------------
(* Bounds of the model *)

MaxTasks == 2        \* get_metric calls per behaviour
MaxConcurrent == 1   \* the max_concurrent handed to AnalyticsService.__init__
Now0 == 170          \* the clock reading (hours) of the behaviour
MaxDate == 171       \* start dates of the classification harness: 0..MaxDate
GateTimeout == 1     \* the wait timeout (clock ticks) a bounded gate would have
MaxWait == 2         \* clock ticks of queueing the model follows
MaxFilters == 3      \* items of a filter dict in the cache key harness
MaxBuilds == 2       \* calls of _build_cache_key per query in the cache key harness

(* Program constants *)

CACHE_TTL_SECONDS == 300
HOT_DATA_HOURS == 24
WARM_DAYS == 7

----------------------------------------------------------------------------
(* Python values *)

None == << >>
Some(x) == <<x>>

Tasks == 1..MaxTasks

\* MetricQuery; filters is an Optional[Dict]: None, or <<d>> with d the dict
\* as the sequence of its <<field, value>> items in insertion order
MetricQuery(m, s, e, g, f) ==
    [metric_type |-> m, start_date |-> s, end_date |-> e, granularity |-> g, filters |-> f]

NoQuery == MetricQuery("", 0, 0, "", << >>)

\* The queries the calls are made with: one of each age class at clock Now0
Queries ==
    { MetricQuery("active_users", Now0 - 2, Now0 - 1, "hour", << >>),
      MetricQuery("page_views", Now0 - 48, Now0 - 24, "day", << >>),
      MetricQuery("active_users", Now0 - 168, Now0 - 24, "week", << >>) }

\* An object gather() can hand back: a MetricResult, or an exception instance
PyObject(type, d, c, f) ==
    [type |-> type, data |-> d, cached |-> c, data_freshness |-> f]

MetricResult(d, c, f) == PyObject("MetricResult", d, c, f)

ExceptionObject(cls) == PyObject(cls, << >>, FALSE, None)

\* The exception that ended a call: its class and the await that raised it
Raised(cls, at) == [type |-> cls, at |-> at]

\* isinstance(x, Exception): CancelledError is a BaseException only
IsInstanceOfException(x) == x.type = "Exception"

\* The rows a store query can return: none, or one
StoreResults == { << >>, <<"r1">> }

\* json.dumps / json.loads of a list of rows, as text tokens
json_dumps(d) == <<"[">> \o d \o <<"]">>
json_loads(s) == SubSeq(s, 2, Len(s) - 1)

\* Python truthiness of an Optional[bytes] / Optional[list]
Truthy(opt) == opt # None /\ Len(opt[1]) > 0

----------------------------------------------------------------------------
(* Pure functions of AnalyticsService *)

\* _get_cache_strategy with the hot boundary taken inclusively
_get_cache_strategy_Inclusive(start_date, utcnow) ==
    LET age == utcnow - start_date
    IN  IF age <= HOT_DATA_HOURS THEN "hot"
        ELSE IF age < WARM_DAYS * 24 THEN "warm"
        ELSE "cold"

_get_cache_strategy(start_date, utcnow) ==
    LET age == utcnow - start_date
    IN  IF age < HOT_DATA_HOURS THEN "hot"
        ELSE IF age < WARM_DAYS * 24 THEN "warm"
        ELSE "cold"

\* The field names filters are made of in the model, in the order sorted()
\* puts them (lexicographic)
FieldOrder == <<"region", "tenant_id", "user_id">>

\* The filter fields _build_filter_clause lets through (line 316)
allowed_fields == {"user_id", "tenant_id", "event_type"}

\* dict.keys(), and the dict as a set of items
Keys(d) == { d[i][1] : i \in 1..Len(d) }
Items(d) == { d[i] : i \in 1..Len(d) }

\* json.dumps(d) of a dict: its items in insertion order
json_dumps_dict_Unsorted(d) == d

\* json.dumps(d, sort_keys=True) of a dict: its items in the order of their keys
json_dumps_dict(d) ==
    LET present == SelectSeq(FieldOrder, LAMBDA f : f \in Keys(d))
    IN  [i \in 1..Len(present) |-> CHOOSE item \in Items(d) : item[1] = present[i]]

\* hashlib.md5(filter_str.encode()).hexdigest()[:8], a function of the text
filter_digest(filters) == <<"md5", json_dumps_dict(filters)>>

_build_cache_key(q) ==
    LET filter_hash == IF Truthy(q.filters) THEN filter_digest(q.filters[1]) ELSE <<"">>
    IN  <<"metric", q.metric_type, q.start_date, q.end_date, q.granularity, filter_hash>>

\* The metric types the service has a materialized view for (line 71)
KnownMetricTypes == {"active_users", "page_views"}

\* Queries that break the contract of MetricQuery: an empty date range, and
\* a metric type without a view
MalformedQueries ==
    { MetricQuery("active_users", Now0 - 1, Now0 - 1, "hour", << >>),
      MetricQuery("no_such_metric", Now0 - 2, Now0 - 1, "hour", << >>) }

IsMalformed(q) == q.start_date >= q.end_date \/ q.metric_type \notin KnownMetricTypes

CacheKeys == { _build_cache_key(q) : q \in Queries \cup MalformedQueries }

----------------------------------------------------------------------------
(* The password reset flow: values and the state before any call *)

MaxProcs == 2         \* password reset calls running at the same time
MaxTokens == 2        \* reset tokens generated per behaviour
ClockStep == 5        \* minutes the clock moves at a time
MaxClock == 20        \* the clock stops here
MaxCalls == 6         \* direct calls of check_rate_limit in the rate limiter harness

MAX_ATTEMPTS == 3
WINDOW_MINUTES == 15
TOKEN_EXPIRY_MINUTES == 15

Procs == 1..MaxProcs

\* The users in the table, and the emails a reset is requested for
Users == {"alice"}
Emails == {"alice", "nobody"}

\* The passwords a submit brings
Passwords == {"pw1", "pw2"}

\* hashlib.sha256(token.encode()).hexdigest()
hash_token(token) == <<"sha256", token>>

\* bcrypt.hashpw(new_password.encode(), ...)
hashpw(password) == <<"bcrypt", password>>

\* Result(success, error, message)
Result(success, error, message) == [success |-> success, error |-> error, message |-> message]

\* The Result of every return of request_password_reset (lines 163-166, 221-224)
GenericSuccess ==
    Result(TRUE, None, "If that email exists, we've sent reset instructions.")

\* The Results of submit_password_reset
ResetFailure(error) == Result(FALSE, Some(error), "Invalid or expired reset token.")
ResetSuccess == Result(TRUE, None, "Password reset successful.")

\* A row of the users table
UserRow(password_hash, reset_token_hash, reset_token_expiry, reset_token_used) ==
    [password_hash |-> password_hash, reset_token_hash |-> reset_token_hash,
     reset_token_expiry |-> reset_token_expiry, reset_token_used |-> reset_token_used]

\* A call slot: the function running in it, the await it is suspended at,
\* its arguments and locals, the Result it returned, and the actions it
\* handed to audit_logger.log
Call(op, at, email, token, new_password, user, expiry, res, log) ==
    [op |-> op, pc |-> at, email |-> email, token |-> token, new_password |-> new_password,
     user |-> user, expiry |-> expiry, res |-> res, log |-> log]

NoCall == Call("none", "idle", "", 0, "", "", 0, None, << >>)

\* The keys of the rate limiter
rate_limit_key(email) == <<"reset", email>>

InitReset ==
    /\ clock = 0
    /\ users = [u \in Users |-> UserRow(hashpw("pw0"), None, None, FALSE)]
    /\ attempts = [k \in { rate_limit_key(e) : e \in Emails } |-> << >>]
    /\ tokens = 0
    /\ proc = [p \in Procs |-> NoCall]
    /\ successes = [k \in 1..MaxTokens |-> 0]
    /\ rlLog = << >>

----------------------------------------------------------------------------
(* State after AnalyticsService.__init__, before any call *)

NoBatch ==
    [state |-> "idle", queries |-> << >>, tasks |-> << >>, results |-> << >>, reordered |-> FALSE]

Init ==
    /\ now = Now0
    /\ sem = MaxConcurrent
    /\ cache = [k \in CacheKeys |-> None]
    /\ written = [k \in CacheKeys |-> None]
    /\ pc = [t \in Tasks |-> "idle"]
    /\ query = [t \in Tasks |-> NoQuery]
    /\ strategy = [t \in Tasks |-> "none"]
    /\ data = [t \in Tasks |-> << >>]
    /\ result = [t \in Tasks |-> None]
    /\ exc = [t \in Tasks |-> None]
    /\ io = [t \in Tasks |-> << >>]
    /\ batch = NoBatch
    /\ waited = [t \in Tasks |-> 0]
    /\ clsStart = 0
    /\ clsOut = "none"
    /\ ckQuery = NoQuery
    /\ ckOut = << >>
    /\ InitReset

----------------------------------------------------------------------------
(* Helpers over the state *)

Terminal == {"done", "failed", "cancelled"}
Suspended == {"cache_get", "gate", "query", "cache_set", "fresh"}

Range(s) == { s[i] : i \in 1..Len(s) }

BatchTasks == Range(batch.tasks)

IndexOf(t) == CHOOSE i \in 1..Len(batch.tasks) : batch.tasks[i] = t

\* The tasks not yet used, lowest first: calls take task slots in order
IdleTasks == { t \in Tasks : pc[t] = "idle" }
NextIdle == CHOOSE t \in IdleTasks : \A u \in IdleTasks : t <= u

\* History kept when call t ends: did it end while an earlier child of the
\* same batch was still running (completion order differs from input order)
NoteFinish(t) ==
    IF t \in BatchTasks /\ batch.state = "running"
       /\ \E u \in BatchTasks : IndexOf(u) < IndexOf(t) /\ pc[u] \notin Terminal
    THEN [batch EXCEPT !.reordered = TRUE]
    ELSE batch

\* Lines 132-140 and 155-156: the synchronous prefix of get_metric up to its
\* first await: the cache read for hot/warm data, the semaphore otherwise
FirstAwait(q) ==
    IF _get_cache_strategy(q.start_date, now) \in {"hot", "warm"} THEN "cache_get" ELSE "gate"

\* The operation issued on reaching an await
OpAt(p) ==
    CASE p = "cache_get" -> "redis.get"
      [] p = "gate" -> "semaphore.acquire"
      [] p = "query" -> "db.execute(view)"
      [] p = "cache_set" -> "redis.setex"
      [] p = "fresh" -> "db.execute(mv_metadata)"

----------------------------------------------------------------------------
(* get_metric *)

\* A caller invokes get_metric(q) on its own (not through a batch)
StartCall(q) ==
    /\ IdleTasks # {}
    /\ LET t == NextIdle IN
        /\ pc' = [pc EXCEPT ![t] = FirstAwait(q)]
        /\ query' = [query EXCEPT ![t] = q]
        /\ strategy' = [strategy EXCEPT ![t] = _get_cache_strategy(q.start_date, now)]
        /\ io' = [io EXCEPT ![t] = <<OpAt(FirstAwait(q))>>]
    /\ UNCHANGED <<now, sem, cache, written, data, result, exc, batch, waited, clsVars, keyVars, resetVars>>

\* redis.get(key): the stored bytes, or None for a key that is not there
redis_get(k) == IF cache[k] # None THEN Some(cache[k][1].value) ELSE None

\* _get_from_cache after redis.get replied (lines 227-232): the decoded list
\* when the reply is truthy, None otherwise
_get_from_cache(reply) ==
    IF Truthy(reply) THEN Some(json_loads(reply[1])) ELSE None

\* HitResult stamped with a freshness time
HitResult_Stamped(cached_data) == MetricResult(cached_data, TRUE, Some(now))

\* The MetricResult of a cache hit (lines 149-153)
HitResult(cached_data) == MetricResult(cached_data, TRUE, None)

\* redis.get replied (lines 140-153): a truthy cached_data ends the call with
\* cached=True, anything else falls through to the semaphore
CacheGet(t) ==
    /\ pc[t] = "cache_get"
    /\ LET cached_data == _get_from_cache(redis_get(_build_cache_key(query[t])))
       IN  IF Truthy(cached_data)
           THEN /\ pc' = [pc EXCEPT ![t] = "done"]
                /\ result' = [result EXCEPT ![t] = Some(HitResult(cached_data[1]))]
                /\ batch' = NoteFinish(t)
                /\ UNCHANGED io
           ELSE /\ pc' = [pc EXCEPT ![t] = "gate"]
                /\ io' = [io EXCEPT ![t] = Append(@, OpAt("gate"))]
                /\ UNCHANGED <<result, batch>>
    /\ UNCHANGED <<now, sem, cache, written, query, strategy, data, exc, waited, clsVars, keyVars, resetVars>>

\* redis.get (or json.loads) raised: caught at line 230, the wrapper returns
\* None and get_metric goes on to the semaphore
CacheGetError(t) ==
    /\ pc[t] = "cache_get"
    /\ pc' = [pc EXCEPT ![t] = "gate"]
    /\ io' = [io EXCEPT ![t] = @ \o <<"redis.get raised", OpAt("gate")>>]
    /\ UNCHANGED <<now, sem, cache, written, query, strategy, data, result, exc, batch, waited, clsVars, keyVars, resetVars>>

\* Acquire without the wait for a free permit
Acquire_Unguarded(t) ==
    /\ pc[t] = "gate"
    /\ sem' = sem - 1
    /\ pc' = [pc EXCEPT ![t] = "query"]
    /\ io' = [io EXCEPT ![t] = Append(@, OpAt("query"))]
    /\ waited' = [waited EXCEPT ![t] = 0]
    /\ UNCHANGED <<now, cache, written, query, strategy, data, result, exc, batch, clsVars, keyVars, resetVars>>

\* async with self._query_semaphore, __aenter__: take a permit when one is
\* free, and call _query_database
Acquire(t) ==
    /\ pc[t] = "gate"
    /\ sem > 0
    /\ sem' = sem - 1
    /\ pc' = [pc EXCEPT ![t] = "query"]
    /\ io' = [io EXCEPT ![t] = Append(@, OpAt("query"))]
    /\ waited' = [waited EXCEPT ![t] = 0]
    /\ UNCHANGED <<now, cache, written, query, strategy, data, result, exc, batch, clsVars, keyVars, resetVars>>

\* AfterQuery with the cache write made for every strategy
AfterQuery_AlwaysCache(strat) == "cache_set"

\* The await after a successful store query (lines 159-163, 177): the cache
\* write for hot and warm data, the freshness lookup for cold data
AfterQuery(strat) == IF strat \in {"hot", "warm"} THEN "cache_set" ELSE "fresh"

\* QueryOk with the permit kept past the store query
QueryOk_KeepsPermit(t, d) ==
    /\ pc[t] = "query"
    /\ data' = [data EXCEPT ![t] = d]
    /\ pc' = [pc EXCEPT ![t] = AfterQuery(strategy[t])]
    /\ io' = [io EXCEPT ![t] = Append(@, OpAt(AfterQuery(strategy[t])))]
    /\ UNCHANGED <<now, sem, cache, written, query, strategy, result, exc, batch, waited, clsVars, keyVars, resetVars>>

\* _query_database returned rows d; __aexit__ releases the permit
QueryOk(t, d) ==
    /\ pc[t] = "query"
    /\ data' = [data EXCEPT ![t] = d]
    /\ sem' = sem + 1
    /\ pc' = [pc EXCEPT ![t] = AfterQuery(strategy[t])]
    /\ io' = [io EXCEPT ![t] = Append(@, OpAt(AfterQuery(strategy[t])))]
    /\ UNCHANGED <<now, cache, written, query, strategy, result, exc, batch, waited, clsVars, keyVars, resetVars>>

\* QueryError with the release skipped on the exception path
QueryError_KeepsPermit(t) ==
    /\ pc[t] = "query"
    /\ pc' = [pc EXCEPT ![t] = "failed"]
    /\ exc' = [exc EXCEPT ![t] = Some(Raised("Exception", "query"))]
    /\ io' = [io EXCEPT ![t] = Append(@, "db.execute(view) raised")]
    /\ batch' = NoteFinish(t)
    /\ UNCHANGED <<now, sem, cache, written, query, strategy, data, result, waited, clsVars, keyVars, resetVars>>

\* QueryError with the exception swallowed: the call goes on with no rows
QueryError_Swallowed(t) ==
    /\ pc[t] = "query"
    /\ sem' = sem + 1
    /\ data' = [data EXCEPT ![t] = << >>]
    /\ pc' = [pc EXCEPT ![t] = AfterQuery(strategy[t])]
    /\ io' = [io EXCEPT ![t] = @ \o <<"db.execute(view) raised", OpAt(AfterQuery(strategy[t]))>>]
    /\ UNCHANGED <<now, cache, written, query, strategy, result, exc, batch, waited, clsVars, keyVars, resetVars>>

\* db.execute raised inside the gated section: __aexit__ releases the permit
\* and the exception leaves get_metric
QueryError(t) ==
    /\ pc[t] = "query"
    /\ sem' = sem + 1
    /\ pc' = [pc EXCEPT ![t] = "failed"]
    /\ exc' = [exc EXCEPT ![t] = Some(Raised("Exception", "query"))]
    /\ io' = [io EXCEPT ![t] = Append(@, "db.execute(view) raised")]
    /\ batch' = NoteFinish(t)
    /\ UNCHANGED <<now, cache, written, query, strategy, data, result, waited, clsVars, keyVars, resetVars>>

\* TtlFor with the one ttl for every strategy
TtlFor_Flat(strat) == CACHE_TTL_SECONDS

\* The ttl get_metric hands to _set_cache (lines 160-163)
TtlFor(strat) == IF strat = "hot" THEN CACHE_TTL_SECONDS ELSE CACHE_TTL_SECONDS * 2

\* _set_cache: redis.setex(key, ttl, json.dumps(data)) succeeded
CacheSet(t) ==
    /\ pc[t] = "cache_set"
    /\ cache' = [cache EXCEPT ![_build_cache_key(query[t])] =
                    Some([value |-> json_dumps(data[t]), ttl |-> TtlFor(strategy[t])])]
    /\ written' = [written EXCEPT ![_build_cache_key(query[t])] = Some(data[t])]
    /\ pc' = [pc EXCEPT ![t] = "fresh"]
    /\ io' = [io EXCEPT ![t] = Append(@, OpAt("fresh"))]
    /\ UNCHANGED <<now, sem, query, strategy, data, result, exc, batch, waited, clsVars, keyVars, resetVars>>

\* CacheSetError without the try/except: the exception leaves get_metric
CacheSetError_Propagates(t) ==
    /\ pc[t] = "cache_set"
    /\ pc' = [pc EXCEPT ![t] = "failed"]
    /\ exc' = [exc EXCEPT ![t] = Some(Raised("Exception", "cache_set"))]
    /\ io' = [io EXCEPT ![t] = Append(@, "redis.setex raised")]
    /\ batch' = NoteFinish(t)
    /\ UNCHANGED <<now, sem, cache, written, query, strategy, data, result, waited, clsVars, keyVars, resetVars>>

\* redis.setex raised: caught at line 248, logged, get_metric goes on
CacheSetError(t) ==
    /\ pc[t] = "cache_set"
    /\ pc' = [pc EXCEPT ![t] = "fresh"]
    /\ io' = [io EXCEPT ![t] = @ \o <<"redis.setex raised", OpAt("fresh")>>]
    /\ UNCHANGED <<now, sem, cache, written, query, strategy, data, result, exc, batch, waited, clsVars, keyVars, resetVars>>

\* The rows of mv_metadata the freshness lookup can find: none, or one whose
\* last_refresh is a time in the past
FreshnessRows == {None, Some(now - 1)}

\* _get_materialized_view_freshness (lines 333-334): row.last_refresh if row
\* else datetime.utcnow()
_get_materialized_view_freshness(row) == IF row # None THEN row[1] ELSE now

\* The MetricResult of a call that went to the store (lines 173-178)
MissResult(d, freshness) == MetricResult(d, FALSE, Some(freshness))

\* What the freshness lookup's fetchone() found, as kept in the history
RowNote(row) == IF row # None THEN "mv_metadata: row" ELSE "mv_metadata: no row"

\* The freshness lookup returned and get_metric returns its MetricResult
FreshOk(t, row) ==
    /\ pc[t] = "fresh"
    /\ pc' = [pc EXCEPT ![t] = "done"]
    /\ result' = [result EXCEPT ![t] =
                    Some(MissResult(data[t], _get_materialized_view_freshness(row)))]
    /\ io' = [io EXCEPT ![t] = Append(@, RowNote(row))]
    /\ batch' = NoteFinish(t)
    /\ UNCHANGED <<now, sem, cache, written, query, strategy, data, exc, waited, clsVars, keyVars, resetVars>>

\* The freshness lookup's db.execute raised: the exception leaves get_metric
FreshError(t) ==
    /\ pc[t] = "fresh"
    /\ pc' = [pc EXCEPT ![t] = "failed"]
    /\ exc' = [exc EXCEPT ![t] = Some(Raised("Exception", "fresh"))]
    /\ io' = [io EXCEPT ![t] = Append(@, "db.execute(mv_metadata) raised")]
    /\ batch' = NoteFinish(t)
    /\ UNCHANGED <<now, sem, cache, written, query, strategy, data, result, waited, clsVars, keyVars, resetVars>>

\* The task running get_metric is cancelled at the await it is suspended at:
\* CancelledError passes every "except Exception"; inside the gated section
\* __aexit__ releases the permit, a queued acquire gives its place up
Cancel(t) ==
    /\ pc[t] \in Suspended
    /\ sem' = IF pc[t] = "query" THEN sem + 1 ELSE sem
    /\ pc' = [pc EXCEPT ![t] = "cancelled"]
    /\ exc' = [exc EXCEPT ![t] = Some(Raised("CancelledError", pc[t]))]
    /\ waited' = [waited EXCEPT ![t] = 0]
    /\ batch' = NoteFinish(t)
    /\ UNCHANGED <<now, cache, written, query, strategy, data, result, io, clsVars, keyVars, resetVars>>

\* Redis drops a key whose ttl ran out
Expire(k) ==
    /\ cache[k] # None
    /\ cache' = [cache EXCEPT ![k] = None]
    /\ written' = [written EXCEPT ![k] = None]
    /\ UNCHANGED <<now, sem, taskVars, batch, waited, clsVars, keyVars, resetVars>>

----------------------------------------------------------------------------
(* batch_get_metrics *)

\* Lines 350-351: one get_metric task per query, in input order; each runs
\* to its first await
BatchStart(qs) ==
    /\ batch.state = "idle"
    /\ Len(qs) >= 1
    /\ Cardinality(IdleTasks) >= Len(qs)
    /\ LET first == NextIdle
           kids == [i \in 1..Len(qs) |-> first + i - 1]
           qOf(t) == qs[t - first + 1]
       IN  /\ pc' = [t \in Tasks |-> IF t \in Range(kids) THEN FirstAwait(qOf(t)) ELSE pc[t]]
           /\ query' = [t \in Tasks |-> IF t \in Range(kids) THEN qOf(t) ELSE query[t]]
           /\ strategy' = [t \in Tasks |-> IF t \in Range(kids)
                              THEN _get_cache_strategy(qOf(t).start_date, now)
                              ELSE strategy[t]]
           /\ io' = [t \in Tasks |-> IF t \in Range(kids)
                              THEN <<OpAt(FirstAwait(qOf(t)))>> ELSE io[t]]
           /\ batch' = [state |-> "running", queries |-> qs, tasks |-> kids,
                        results |-> << >>, reordered |-> FALSE]
    /\ UNCHANGED <<now, sem, cache, written, data, result, exc, waited, clsVars, keyVars, resetVars>>

\* What asyncio.gather(..., return_exceptions=True) puts in the slot of a
\* finished child: its return value, the exception it raised, or a
\* CancelledError when the child was cancelled
GatherSlot(t) ==
    IF pc[t] = "done" THEN result[t][1] ELSE ExceptionObject(exc[t][1].type)

\* Lines 356-367: the slot batch_get_metrics returns for a gathered object
ProcessSlot(r) ==
    IF IsInstanceOfException(r) THEN MetricResult(<< >>, FALSE, None) ELSE r

\* ProcessResults leaving failed queries out instead of filling their slots
ProcessResults_SkipFailed(results) ==
    LET kept == SelectSeq(results, LAMBDA r : ~IsInstanceOfException(r))
    IN  [i \in 1..Len(kept) |-> ProcessSlot(kept[i])]

\* Lines 354-369: processed_results, built slot by slot in input order
ProcessResults(results) == [i \in 1..Len(results) |-> ProcessSlot(results[i])]

\* BatchReturn as soon as one child is finished, the slots of the others
\* filled with the empty result
BatchReturn_FirstCompleted ==
    /\ batch.state = "running"
    /\ \E t \in BatchTasks : pc[t] \in Terminal
    /\ batch' = [batch EXCEPT !.state = "returned",
                              !.results = [i \in 1..Len(batch.tasks) |->
                                  IF pc[batch.tasks[i]] \in Terminal
                                  THEN ProcessSlot(GatherSlot(batch.tasks[i]))
                                  ELSE MetricResult(<< >>, FALSE, None)]]
    /\ UNCHANGED <<now, sem, cache, written, taskVars, waited, clsVars, keyVars, resetVars>>

\* gather completes once every child is finished; batch_get_metrics then
\* builds processed_results and returns it
BatchReturn ==
    /\ batch.state = "running"
    /\ \A t \in BatchTasks : pc[t] \in Terminal
    /\ batch' = [batch EXCEPT !.state = "returned",
                              !.results = ProcessResults([i \in 1..Len(batch.tasks) |->
                                                             GatherSlot(batch.tasks[i])])]
    /\ UNCHANGED <<now, sem, cache, written, taskVars, waited, clsVars, keyVars, resetVars>>

\* The query lists a batch is called with
BatchInputs == UNION { [1..n -> Queries] : n \in 1..MaxTasks }

----------------------------------------------------------------------------
(* The service *)

Next ==
    \/ \E q \in Queries : StartCall(q)
    \/ \E qs \in BatchInputs : BatchStart(qs)
    \/ \E t \in Tasks : CacheGet(t)
    \/ \E t \in Tasks : CacheGetError(t)
    \/ \E t \in Tasks : Acquire(t)
    \/ \E t \in Tasks, d \in StoreResults : QueryOk(t, d)
    \/ \E t \in Tasks : QueryError(t)
    \/ \E t \in Tasks : CacheSet(t)
    \/ \E t \in Tasks : CacheSetError(t)
    \/ \E t \in Tasks, row \in FreshnessRows : FreshOk(t, row)
    \/ \E t \in Tasks : FreshError(t)
    \/ \E t \in Tasks : Cancel(t)
    \/ \E k \in CacheKeys : Expire(k)
    \/ BatchReturn

Spec == Init /\ [][Next]_vars

----------------------------------------------------------------------------
(* The service with a clock running while calls queue at the semaphore *)

\* A clock tick passes while every permit is taken: each call queued in
\* semaphore.acquire has waited one tick longer
Tick ==
    /\ sem = 0
    /\ \E t \in Tasks : pc[t] = "gate"
    /\ \A t \in Tasks : pc[t] = "gate" => waited[t] < MaxWait
    /\ waited' = [t \in Tasks |-> IF pc[t] = "gate" THEN waited[t] + 1 ELSE waited[t]]
    /\ UNCHANGED <<now, sem, cache, written, taskVars, batch, clsVars, keyVars, resetVars>>

NextTimed == Next \/ Tick

SpecTimed == Init /\ [][NextTimed]_vars

----------------------------------------------------------------------------
(* The service under a running event loop: a call that can take its next
   step (its I/O has replied, or a permit is free for it) eventually takes
   it, and a gather whose children are all finished eventually returns.
   Starting calls and cancelling them stay up to the callers. *)

\* The steps call t takes on its own once the awaited operation has replied
Progress(t) ==
    \/ CacheGet(t)
    \/ CacheGetError(t)
    \/ Acquire(t)
    \/ \E d \in StoreResults : QueryOk(t, d)
    \/ QueryError(t)
    \/ CacheSet(t)
    \/ CacheSetError(t)
    \/ \E row \in FreshnessRows : FreshOk(t, row)
    \/ FreshError(t)

Fairness ==
    /\ \A t \in Tasks : WF_vars(Progress(t))
    /\ WF_vars(BatchReturn)

SpecLive == Init /\ [][Next]_vars /\ Fairness

----------------------------------------------------------------------------
(* get_metric called with queries that break the contract of MetricQuery *)

NextMalformed ==
    \/ \E q \in MalformedQueries : StartCall(q)
    \/ \E t \in Tasks : CacheGet(t)
    \/ \E t \in Tasks : CacheGetError(t)
    \/ \E t \in Tasks : Acquire(t)
    \/ \E t \in Tasks, d \in StoreResults : QueryOk(t, d)
    \/ \E t \in Tasks : QueryError(t)
    \/ \E t \in Tasks : CacheSet(t)
    \/ \E t \in Tasks : CacheSetError(t)
    \/ \E t \in Tasks, row \in FreshnessRows : FreshOk(t, row)
    \/ \E t \in Tasks : FreshError(t)
    \/ \E t \in Tasks : Cancel(t)
    \/ \E k \in CacheKeys : Expire(k)

SpecMalformed == Init /\ [][NextMalformed]_vars

----------------------------------------------------------------------------
(* _get_cache_strategy on its own: every start date against the clock *)

InitClassify ==
    /\ now = Now0
    /\ sem = MaxConcurrent
    /\ cache = [k \in CacheKeys |-> None]
    /\ written = [k \in CacheKeys |-> None]
    /\ pc = [t \in Tasks |-> "idle"]
    /\ query = [t \in Tasks |-> NoQuery]
    /\ strategy = [t \in Tasks |-> "none"]
    /\ data = [t \in Tasks |-> << >>]
    /\ result = [t \in Tasks |-> None]
    /\ exc = [t \in Tasks |-> None]
    /\ io = [t \in Tasks |-> << >>]
    /\ batch = NoBatch
    /\ waited = [t \in Tasks |-> 0]
    /\ clsStart \in 0..MaxDate
    /\ clsOut = "none"
    /\ ckQuery = NoQuery
    /\ ckOut = << >>
    /\ InitReset

Classify ==
    /\ clsOut = "none"
    /\ clsOut' = _get_cache_strategy(clsStart, now)
    /\ UNCHANGED <<now, sem, cache, written, taskVars, batch, waited, clsStart, keyVars, resetVars>>

NextClassify == Classify

SpecClassify == InitClassify /\ [][NextClassify]_vars

----------------------------------------------------------------------------
(* _build_cache_key on its own: queries with every filter dict of the model *)

\* The values a filter can have
FilterValues == {"a", "b"}

\* The dicts of up to MaxFilters items: sequences of items with distinct keys
FilterDicts ==
    { d \in UNION { [1..n -> Range(FieldOrder) \X FilterValues] : n \in 0..MaxFilters } :
        \A i, j \in 1..Len(d) : i # j => d[i][1] # d[j][1] }

\* The queries _build_cache_key is called with: filters None, {} or a dict
KeyInputs ==
    { [q EXCEPT !.filters = f] : q \in Queries, f \in {None} \cup { Some(d) : d \in FilterDicts } }

InitCacheKey ==
    /\ now = Now0
    /\ sem = MaxConcurrent
    /\ cache = [k \in CacheKeys |-> None]
    /\ written = [k \in CacheKeys |-> None]
    /\ pc = [t \in Tasks |-> "idle"]
    /\ query = [t \in Tasks |-> NoQuery]
    /\ strategy = [t \in Tasks |-> "none"]
    /\ data = [t \in Tasks |-> << >>]
    /\ result = [t \in Tasks |-> None]
    /\ exc = [t \in Tasks |-> None]
    /\ io = [t \in Tasks |-> << >>]
    /\ batch = NoBatch
    /\ waited = [t \in Tasks |-> 0]
    /\ clsStart = 0
    /\ clsOut = "none"
    /\ ckQuery \in KeyInputs
    /\ ckOut = << >>
    /\ InitReset

\* One call of _build_cache_key(ckQuery)
BuildKey ==
    /\ Len(ckOut) < MaxBuilds
    /\ ckOut' = Append(ckOut, _build_cache_key(ckQuery))
    /\ UNCHANGED <<now, sem, cache, written, taskVars, batch, waited, clsVars, ckQuery, resetVars>>

NextCacheKey == BuildKey

SpecCacheKey == InitCacheKey /\ [][NextCacheKey]_vars

----------------------------------------------------------------------------
(* The password reset flow: RateLimiter, request_password_reset,
   submit_password_reset *)

svcVars == <<now, sem, cache, written, taskVars, batch, waited, clsVars, keyVars>>

\* RateLimiter.check_rate_limit, lines 117-126: the attempts of the key that
\* are younger than the window
recent_attempts(key) ==
    SelectSeq(attempts[key], LAMBDA attempt : attempt > clock - WINDOW_MINUTES)

\* check_rate_limit letting one attempt more through
check_rate_limit_OffByOne(key) == ~(Len(recent_attempts(key)) > MAX_ATTEMPTS)

\* RateLimiter.check_rate_limit, lines 129-134: the value returned
check_rate_limit(key) == ~(Len(recent_attempts(key)) >= MAX_ATTEMPTS)

\* RateLimiter.check_rate_limit: self._attempts after the call
attempts_after(key) ==
    [attempts EXCEPT ![key] =
        IF check_rate_limit(key) THEN Append(recent_attempts(key), clock)
        ELSE recent_attempts(key)]

\* The calls that will generate a token once their select has replied
TokenPending ==
    { p \in Procs : proc[p].op = "request" /\ proc[p].pc = "select" /\ proc[p].email \in Users }

\* request_password_reset called (lines 155-169): the rate limit is checked
\* at once; the call then waits for audit_logger.log or for the user select
RequestStart(p, email) ==
    /\ proc[p].pc = "idle"
    /\ (email \in Users /\ check_rate_limit(rate_limit_key(email))) =>
          tokens + Cardinality(TokenPending) < MaxTokens
    /\ attempts' = attempts_after(rate_limit_key(email))
    /\ proc' = [proc EXCEPT ![p] =
          IF check_rate_limit(rate_limit_key(email))
          THEN [NoCall EXCEPT !.op = "request", !.pc = "select", !.email = email]
          ELSE [NoCall EXCEPT !.op = "request", !.pc = "rate_log", !.email = email,
                              !.log = <<"password_reset.rate_limited">>]]
    /\ UNCHANGED <<clock, users, tokens, successes, rlLog, svcVars>>

\* Lines 163-166: the rate limited call returns
RequestLimited(p) ==
    /\ proc[p].op = "request" /\ proc[p].pc = "rate_log"
    /\ proc' = [proc EXCEPT ![p].pc = "done", ![p].res = Some(GenericSuccess)]
    /\ UNCHANGED <<clock, users, attempts, tokens, successes, rlLog, svcVars>>

\* Lines 169-178 and 214-218: the select replied; for a user a token is
\* generated with its expiry, for no user the call goes to sleep
RequestSelect(p) ==
    /\ proc[p].op = "request" /\ proc[p].pc = "select"
    /\ IF proc[p].email \in Users
       THEN /\ tokens' = tokens + 1
            /\ proc' = [proc EXCEPT ![p].pc = "store", ![p].user = proc[p].email,
                                    ![p].token = tokens + 1,
                                    ![p].expiry = clock + TOKEN_EXPIRY_MINUTES]
       ELSE /\ proc' = [proc EXCEPT ![p].pc = "sleep"]
            /\ UNCHANGED tokens
    /\ UNCHANGED <<clock, users, attempts, successes, rlLog, svcVars>>

\* Lines 181-190: the update of the user's row is executed and committed
RequestStore(p) ==
    /\ proc[p].op = "request" /\ proc[p].pc = "store"
    /\ users' = [users EXCEPT ![proc[p].user] =
          UserRow(@.password_hash, Some(hash_token(proc[p].token)),
                  Some(proc[p].expiry), FALSE)]
    /\ proc' = [proc EXCEPT ![p].pc = "send"]
    /\ UNCHANGED <<clock, attempts, tokens, successes, rlLog, svcVars>>

\* RequestSendError without the try/except: the exception leaves the call
RequestSendError_Propagates(p) ==
    /\ proc[p].op = "request" /\ proc[p].pc = "send"
    /\ proc' = [proc EXCEPT ![p].pc = "done",
                            ![p].log = Append(@, "send_reset_email raised")]
    /\ UNCHANGED <<clock, users, attempts, tokens, successes, rlLog, svcVars>>

\* Lines 194-198, 209-224: the email was sent; the request is logged and the
\* call returns
RequestSendOk(p) ==
    /\ proc[p].op = "request" /\ proc[p].pc = "send"
    /\ proc' = [proc EXCEPT ![p].pc = "done", ![p].res = Some(GenericSuccess),
                            ![p].log = Append(@, "password_reset.requested")]
    /\ UNCHANGED <<clock, users, attempts, tokens, successes, rlLog, svcVars>>

\* Lines 199-224: send_reset_email raised; the failure is logged, then the
\* request, and the call returns
RequestSendError(p) ==
    /\ proc[p].op = "request" /\ proc[p].pc = "send"
    /\ proc' = [proc EXCEPT ![p].pc = "done", ![p].res = Some(GenericSuccess),
                            ![p].log = @ \o <<"send_reset_email raised",
                                              "password_reset.email_failed",
                                              "password_reset.requested">>]
    /\ UNCHANGED <<clock, users, attempts, tokens, successes, rlLog, svcVars>>

\* Lines 218-224: the sleep of the no-user branch is over and the call returns
RequestSleep(p) ==
    /\ proc[p].op = "request" /\ proc[p].pc = "sleep"
    /\ proc' = [proc EXCEPT ![p].pc = "done", ![p].res = Some(GenericSuccess)]
    /\ UNCHANGED <<clock, users, attempts, tokens, successes, rlLog, svcVars>>

\* scalar_one_or_none() of the select by token hash (lines 246-249)
UsersWithToken(token) ==
    { u \in Users : users[u].reset_token_hash = Some(hash_token(token)) }

\* submit_password_reset called (lines 243-248): the select by token hash
\* is under way
SubmitStart(p, token, new_password) ==
    /\ proc[p].pc = "idle"
    /\ proc' = [proc EXCEPT ![p] =
          [NoCall EXCEPT !.op = "submit", !.pc = "select", !.token = token,
                         !.new_password = new_password]]
    /\ UNCHANGED <<clock, users, attempts, tokens, successes, rlLog, svcVars>>

\* The call returns a failure after logging it (lines 252-261, 265-274, 278-287)
Reject(p, error, action) ==
    [proc EXCEPT ![p].pc = "done", ![p].res = Some(ResetFailure(error)),
                 ![p].log = Append(@, action)]

\* Lines 249-294: the select replied; the checks of the row found
SubmitSelect(p) ==
    /\ proc[p].op = "submit" /\ proc[p].pc = "select"
    /\ LET found == UsersWithToken(proc[p].token) IN
       IF found = {}
       THEN proc' = Reject(p, "invalid_token", "password_reset.invalid_token")
       ELSE LET user == CHOOSE u \in found : TRUE IN
            IF users[user].reset_token_used
            THEN proc' = Reject(p, "used_token", "password_reset.token_reused")
            ELSE IF clock > users[user].reset_token_expiry[1]
            THEN proc' = Reject(p, "expired_token", "password_reset.token_expired")
            ELSE proc' = [proc EXCEPT ![p].pc = "update", ![p].user = user]
    /\ UNCHANGED <<clock, users, attempts, tokens, successes, rlLog, svcVars>>

\* Lines 297-320: the update by user id is executed and committed, the
\* completion is logged and the call returns success
SubmitUpdate(p) ==
    /\ proc[p].op = "submit" /\ proc[p].pc = "update"
    /\ users' = [users EXCEPT ![proc[p].user] =
          UserRow(hashpw(proc[p].new_password), None, None, TRUE)]
    /\ successes' = [successes EXCEPT ![proc[p].token] = @ + 1]
    /\ proc' = [proc EXCEPT ![p].pc = "done", ![p].res = Some(ResetSuccess),
                            ![p].log = Append(@, "password_reset.completed")]
    /\ UNCHANGED <<clock, attempts, tokens, rlLog, svcVars>>

\* The caller has taken what the call returned; the slot is free again
Return(p) ==
    /\ proc[p].pc = "done"
    /\ proc' = [proc EXCEPT ![p] = NoCall]
    /\ UNCHANGED <<clock, users, attempts, tokens, successes, rlLog, svcVars>>

\* Time passes
ClockTick ==
    /\ clock + ClockStep <= MaxClock
    /\ clock' = clock + ClockStep
    /\ UNCHANGED <<users, attempts, tokens, proc, successes, rlLog, svcVars>>

\* The keys the limiter is called with
RateKeys == { rate_limit_key(e) : e \in Emails }

\* One call of rate_limiter.check_rate_limit(key) at the current time
LimiterCall(key) ==
    /\ Len(rlLog) < MaxCalls
    /\ attempts' = attempts_after(key)
    /\ rlLog' = Append(rlLog, [key |-> key, at |-> clock, ok |-> check_rate_limit(key)])
    /\ UNCHANGED <<clock, users, tokens, proc, successes, svcVars>>

\* RateLimiter on its own: calls for either key as time passes
NextRateLimit ==
    \/ \E key \in RateKeys : LimiterCall(key)
    \/ ClockTick

SpecRateLimit == Init /\ [][NextRateLimit]_vars

NextReset ==
    \/ \E p \in Procs, email \in Emails : RequestStart(p, email)
    \/ \E p \in Procs : RequestLimited(p)
    \/ \E p \in Procs : RequestSelect(p)
    \/ \E p \in Procs : RequestStore(p)
    \/ \E p \in Procs : RequestSendOk(p)
    \/ \E p \in Procs : RequestSendError(p)
    \/ \E p \in Procs : RequestSleep(p)
    \/ \E p \in Procs, token \in 0..tokens, pw \in Passwords : SubmitStart(p, token, pw)
    \/ \E p \in Procs : SubmitSelect(p)
    \/ \E p \in Procs : SubmitUpdate(p)
    \/ \E p \in Procs : Return(p)

SpecReset == Init /\ [][NextReset]_vars

----------------------------------------------------------------------------
(* Properties *)

\* The calls inside _query_database
InFlight == { t \in Tasks : pc[t] = "query" }

Issued(t, op) == op \in Range(io[t])

KeyOf(t) == _build_cache_key(query[t])

\* The designated result of a failed batch slot (line 364)
EmptyResult == MetricResult(<< >>, FALSE, None)

\* C1: whatever the number of concurrent get_metric calls, single or fanned
\* out by a batch, the calls inside the store query at the same time never
\* number more than max_concurrent.
C1_StoreQueriesBounded == Cardinality(InFlight) <= MaxConcurrent

\* C1 witness: a batch of more than max_concurrent queries has filled the
\* gate, and one of its children, having missed the cache, is queued.
C1_GateSaturatedByBatch ==
    /\ batch.state = "running"
    /\ Len(batch.tasks) > MaxConcurrent
    /\ Cardinality(InFlight) = MaxConcurrent
    /\ \E t \in BatchTasks : pc[t] = "gate" /\ Issued(t, "redis.get")

\* C2: the sequence a batch returns is as long as its input, slot i belongs
\* to queries[i]: it carries that query's own result when the query
\* succeeded and the designated empty result when it failed, in whatever
\* order the queries completed.
C2_BatchKeepsInputOrder ==
    batch.state = "returned" =>
        /\ Len(batch.results) = Len(batch.queries)
        /\ \A i \in 1..Len(batch.queries) :
            LET t == batch.tasks[i] IN
            /\ query[t] = batch.queries[i]
            /\ pc[t] = "done" => batch.results[i] = result[t][1]
            /\ pc[t] = "failed" => batch.results[i] = EmptyResult

\* C2 witness: a returned batch whose earlier slot failed and whose later
\* slot, completed first, carries rows.
C2_LaterSlotFinishedFirst ==
    /\ batch.state = "returned"
    /\ batch.reordered
    /\ \E i, j \in 1..Len(batch.tasks) :
        /\ i < j
        /\ pc[batch.tasks[i]] = "failed"
        /\ pc[batch.tasks[j]] = "done"
        /\ batch.results[j].data # << >>

\* C3: a batch never fails wholesale: whatever the outcomes of its queries
\* (store failure, freshness failure, cancellation of a sub-query) it
\* returns one slot per query and every slot is a MetricResult.
C3_BatchNeverFailsWholesale ==
    batch.state = "returned" =>
        /\ Len(batch.results) = Len(batch.queries)
        /\ \A i \in 1..Len(batch.results) : batch.results[i].type = "MetricResult"

\* C4: a failure of the cache never fails a query: no call ends with an
\* exception raised by a cache operation; a call whose cache read raised goes
\* on to the gate as on a miss and never reports a hit; a call whose cache
\* write raised still returns the store's rows with cached=false.
C4_CacheFailuresAbsorbed ==
    \A t \in Tasks :
        /\ exc[t] # None =>
            ~(exc[t][1].type = "Exception" /\ exc[t][1].at \in {"cache_get", "cache_set"})
        /\ \A i \in 1..Len(io[t]) :
            io[t][i] = "redis.get raised" =>
                i < Len(io[t]) /\ io[t][i + 1] = "semaphore.acquire"
        /\ (Issued(t, "redis.get raised") /\ result[t] # None) => ~result[t][1].cached
        /\ (Issued(t, "redis.setex raised") /\ pc[t] \notin {"cache_set", "fresh"}) =>
            \/ pc[t] = "done" /\ result[t] # None
                 /\ result[t][1].data = data[t] /\ ~result[t][1].cached
            \/ pc[t] = "failed" /\ exc[t][1].at = "fresh"
            \/ pc[t] = "cancelled"

\* C4 witness: a call whose cache read and cache write both raised has
\* returned the rows of the store.
C4_ReturnedDespiteCacheDown ==
    \E t \in Tasks :
        /\ pc[t] = "done"
        /\ Issued(t, "redis.get raised")
        /\ Issued(t, "redis.setex raised")
        /\ result[t][1].data = <<"r1">>

\* C5: the gate leaks no permit: permits held plus permits free is always
\* max_concurrent, however gated queries end, and with no call in flight
\* every permit is free.
C5_NoPermitLeak ==
    /\ sem >= 0
    /\ sem + Cardinality(InFlight) = MaxConcurrent
    /\ (\A t \in Tasks : pc[t] \notin Suspended) => sem = MaxConcurrent

\* C5 witness: one call was cancelled while holding a permit, another ended
\* by a store exception, and every permit is free again.
C5_PermitsBackAfterFailures ==
    /\ \E t \in Tasks : exc[t] = Some(Raised("CancelledError", "query"))
    /\ \E t \in Tasks : exc[t] = Some(Raised("Exception", "query"))
    /\ \A t \in Tasks : pc[t] \notin Suspended
    /\ sem = MaxConcurrent

\* C6: once a call has written a hot query's rows to the cache and every
\* earlier call is over, a call for that query whose cache read succeeds (no
\* expiry since the write) ends at the cache read with cached=true and the
\* rows that were written, and issues no store query; for every store
\* result, the empty one included.
C6_RepeatedHotCallIsCached ==
    [][\A t \in Tasks :
        ( /\ strategy[t] = "hot"
          /\ pc[t] = "cache_get"
          /\ written[KeyOf(t)] # None
          /\ \A u \in Tasks \ {t} : pc[u] \in Terminal \cup {"idle"}
          /\ pc'[t] \notin {"cache_get", "cancelled"}
          /\ ~Issued(t, "redis.get raised")' )
        => /\ pc'[t] = "done"
           /\ result'[t] = Some(MetricResult(written[KeyOf(t)][1], TRUE, None))
           /\ io'[t] = <<"redis.get">>]_vars

\* C7: waiting for a permit is bounded: no call stays queued at a saturated
\* gate for longer than the wait timeout.
C7_GateWaitIsBounded == \A t \in Tasks : waited[t] <= GateTimeout

\* C8: a store failure leaves get_metric as an error: the call ends failed
\* with the store's exception, returns no MetricResult, and has issued
\* neither a cache write nor the freshness lookup.
C8_StoreFailurePropagates ==
    \A t \in Tasks :
        Issued(t, "db.execute(view) raised") =>
            /\ pc[t] = "failed"
            /\ exc[t] = Some(Raised("Exception", "query"))
            /\ result[t] = None
            /\ ~Issued(t, "redis.setex")
            /\ ~Issued(t, "db.execute(mv_metadata)")

\* C8 witness: a single call for a hot query failed in the store after
\* missing the cache, and its key is still absent from the cache.
C8_SingleCallFailedInStore ==
    \E t \in Tasks \ BatchTasks :
        /\ pc[t] = "failed"
        /\ strategy[t] = "hot"
        /\ Issued(t, "db.execute(view) raised")
        /\ cache[KeyOf(t)] = None

\* C9: the strategy is decided by age = now - start_date alone: below 24
\* hours hot, from 24 hours (inclusive) to below 7 days warm, 7 days and
\* more cold; a start date in the future is hot.
C9_ClassificationThresholds ==
    clsOut # "none" =>
        LET age == now - clsStart IN
        /\ clsOut \in {"hot", "warm", "cold"}
        /\ clsOut = "hot" <=> age < 24
        /\ clsOut = "warm" <=> (age >= 24 /\ age < 7 * 24)
        /\ clsOut = "cold" <=> age >= 7 * 24

\* C9 witness: a start date exactly 24 hours old was classified warm.
C9_BoundaryIsWarm == clsOut = "warm" /\ now - clsStart = 24

\* C10: in every MetricResult of get_metric and of a batch, cached=true
\* goes with an unset data_freshness, and the result of a call that queried
\* the store has cached=false and data_freshness set.
C10_FreshnessMatchesProvenance ==
    /\ \A t \in Tasks :
        result[t] # None =>
            /\ result[t][1].cached => result[t][1].data_freshness = None
            /\ Issued(t, "db.execute(view)") =>
                ~result[t][1].cached /\ result[t][1].data_freshness # None
    /\ batch.state = "returned" =>
        \A i \in 1..Len(batch.results) :
            batch.results[i].type = "MetricResult" =>
                /\ batch.results[i].cached => batch.results[i].data_freshness = None
                /\ (i <= Len(batch.tasks) /\ pc[batch.tasks[i]] = "done"
                      /\ Issued(batch.tasks[i], "db.execute(view)")) =>
                    ~batch.results[i].cached /\ batch.results[i].data_freshness # None

\* C10 witness: a returned batch with a slot served from the cache and a
\* slot served from the store.
C10_BatchWithHitAndMiss ==
    /\ batch.state = "returned"
    /\ \E i, j \in 1..Len(batch.results) :
        /\ batch.results[i].cached
        /\ ~batch.results[j].cached
        /\ batch.results[j].data_freshness # None

\* C11: a call for a cold query issues no cache read and no cache write on
\* any path; its first operation is the semaphore acquire and the next the
\* store query; the result it returns has cached=false and data_freshness
\* set, to the current time when mv_metadata holds no row for the view.
C11_ColdBypassesCache ==
    \A t \in Tasks :
        strategy[t] = "cold" =>
            /\ \A op \in {"redis.get", "redis.get raised", "redis.setex", "redis.setex raised"} :
                ~Issued(t, op)
            /\ io[t][1] = "semaphore.acquire"
            /\ Len(io[t]) >= 2 => io[t][2] = "db.execute(view)"
            /\ pc[t] = "done" =>
                /\ result[t] # None
                /\ ~result[t][1].cached
                /\ result[t][1].data = data[t]
                /\ result[t][1].data_freshness # None
                /\ Issued(t, "mv_metadata: no row") => result[t][1].data_freshness = Some(now)

\* C11 witness: a cold call has returned rows with the current time as
\* freshness, the freshness lookup having found no row.
C11_ColdReturnedWithNowAsFreshness ==
    \E t \in Tasks :
        /\ strategy[t] = "cold"
        /\ pc[t] = "done"
        /\ io[t] = <<"semaphore.acquire", "db.execute(view)", "db.execute(mv_metadata)",
                     "mv_metadata: no row">>
        /\ result[t] = Some(MetricResult(<<"r1">>, FALSE, Some(now)))

\* The place of an operation in the order of get_metric (0: not an operation)
OpRank(op) ==
    CASE op = "redis.get" -> 1
      [] op = "semaphore.acquire" -> 2
      [] op = "db.execute(view)" -> 3
      [] op = "redis.setex" -> 4
      [] op = "db.execute(mv_metadata)" -> 5
      [] OTHER -> 0

\* C12: a call issues each of cache read, permit acquire, store query and
\* cache write at most once and in that order; a call that returned a cache
\* hit issued the cache read and nothing else; a cache write comes right
\* after the call's own store query, which did not raise.
C12_OneOperationEachInOrder ==
    \A t \in Tasks :
        /\ \A i, j \in 1..Len(io[t]) :
            (i < j /\ OpRank(io[t][i]) > 0 /\ OpRank(io[t][j]) > 0) =>
                OpRank(io[t][i]) < OpRank(io[t][j])
        /\ (result[t] # None /\ result[t][1].cached) =>
            pc[t] = "done" /\ io[t] = <<"redis.get">>
        /\ \A i \in 1..Len(io[t]) :
            io[t][i] = "redis.setex" =>
                /\ i > 1 /\ io[t][i - 1] = "db.execute(view)"
                /\ ~Issued(t, "db.execute(view) raised")
        /\ \A i \in 1..Len(io[t]) :
            io[t][i] = "db.execute(view)" => i > 1 /\ io[t][i - 1] = "semaphore.acquire"

\* C12 witness: one call went through every state in order and wrote the
\* cache, and a later call for the same key ended at the cache read.
C12_FullPathThenHit ==
    \E t, u \in Tasks :
        /\ io[t] = <<"redis.get", "semaphore.acquire", "db.execute(view)", "redis.setex",
                     "db.execute(mv_metadata)", "mv_metadata: row">>
        /\ pc[t] = "done"
        /\ KeyOf(u) = KeyOf(t)
        /\ pc[u] = "done"
        /\ result[u][1].cached
        /\ io[u] = <<"redis.get">>

\* C13: a call made with a malformed query (start_date not before end_date,
\* or a metric type without a view) ends with an InvalidQuery error and has
\* issued no operation: no cache read, no permit acquire, no store query, no
\* cache write.
C13_MalformedRejectedBeforeIO ==
    \A t \in Tasks :
        (pc[t] # "idle" /\ IsMalformed(query[t])) =>
            /\ io[t] = << >>
            /\ pc[t] = "failed"
            /\ exc[t] # None /\ exc[t][1].type = "InvalidQuery"

\* The filters of a query as a dict, None read as the empty dict
FilterDict(q) == IF q.filters = None THEN << >> ELSE q.filters[1]

\* The query with one more filter item, inserted last
WithFilter(q, f, v) == [q EXCEPT !.filters = Some(Append(FilterDict(q), <<f, v>>))]

\* C14: the cache key ignores filters outside the whitelist: the key of a
\* query equals the key of the same query with one more filter whose field
\* is not in {user_id, tenant_id, event_type}.
C14_UnlistedFilterLeavesKey ==
    ckOut # << >> =>
        \A f \in Range(FieldOrder) \ allowed_fields, v \in FilterValues :
            f \notin Keys(FilterDict(ckQuery)) =>
                _build_cache_key(WithFilter(ckQuery, f, v)) = ckOut[1]

\* C15: the cache key depends on metric type, dates, granularity and the
\* filter items as a set only: every build for a query gives the same key,
\* a query with the same items inserted in another order gets the same key,
\* and with filters None or {} the filter digest is the empty string.
C15_KeyIsFunctionOfItems ==
    ckOut # << >> =>
        /\ \A i \in 1..Len(ckOut) : ckOut[i] = ckOut[1]
        /\ \A q2 \in KeyInputs :
            ( /\ q2.metric_type = ckQuery.metric_type
              /\ q2.start_date = ckQuery.start_date
              /\ q2.end_date = ckQuery.end_date
              /\ q2.granularity = ckQuery.granularity
              /\ Items(FilterDict(q2)) = Items(FilterDict(ckQuery)) )
            => _build_cache_key(q2) = ckOut[1]
        /\ Items(FilterDict(ckQuery)) = {} => ckOut[1][6] = <<"">>

\* C15 witness: the key was built twice for a query whose filters were
\* inserted user_id first, tenant_id second; its digest is that of the
\* items in key order.
C15_BuiltTwiceFromUnsortedDict ==
    /\ Len(ckOut) = 2
    /\ ckQuery.filters = Some(<< <<"user_id", "a">>, <<"tenant_id", "b">> >>)
    /\ ckOut[2][6] = <<"md5", << <<"tenant_id", "b">>, <<"user_id", "a">> >> >>

\* C16: a batch is a full join: once it has returned, every sub-query task
\* it started (one per query) is finished, with a result or a failure; none
\* is queued for a permit, holds a permit, or is inside a store query or a
\* cache operation.
C16_BatchIsFullJoin ==
    batch.state = "returned" =>
        /\ Len(batch.tasks) = Len(batch.queries)
        /\ \A t \in BatchTasks :
            /\ pc[t] \in Terminal
            /\ pc[t] \notin Suspended
            /\ t \notin InFlight
            /\ pc[t] = "done" => result[t] # None
            /\ pc[t] # "done" => exc[t] # None
        /\ (\A t \in Tasks \ BatchTasks : pc[t] \notin Suspended) => sem = MaxConcurrent

\* C16 witness: a batch of two has returned after both children went through
\* the gate, one of them ending with rows and the other with a failure of
\* its freshness lookup.
C16_ReturnedAfterBothChildrenEnded ==
    /\ batch.state = "returned"
    /\ Len(batch.tasks) = 2
    /\ \A t \in BatchTasks : Issued(t, "db.execute(view)")
    /\ \E t \in BatchTasks : pc[t] = "done" /\ result[t][1].data = <<"r1">>
    /\ \E t \in BatchTasks : pc[t] = "failed" /\ exc[t][1].at = "fresh"

\* C17: no cache stampede: of the calls for one hot or warm key that are in
\* progress at the same time and have all found the cache empty, at most
\* one issues a store query.
C17_OneStoreQueryPerMissedKey ==
    \A t, u \in Tasks :
        ( /\ t # u
          /\ KeyOf(t) = KeyOf(u)
          /\ strategy[t] \in {"hot", "warm"}
          /\ pc[t] \in {"gate", "query", "cache_set", "fresh"}
          /\ pc[u] \in {"gate", "query", "cache_set", "fresh"}
          /\ ~Issued(t, "redis.get raised")
          /\ ~Issued(u, "redis.get raised") )
        => ~(Issued(t, "db.execute(view)") /\ Issued(u, "db.execute(view)"))

\* The calls inside a db.execute: the view query or the freshness lookup
DbInFlight == { t \in Tasks : pc[t] \in {"query", "fresh"} }

\* C18: the database executions in flight at the same time, the view query
\* and the freshness lookup both counted, never number more than
\* max_concurrent.
C18_DbExecutionsBounded == Cardinality(DbInFlight) <= MaxConcurrent

\* The calls of request_password_reset that have returned or raised
EndedRequests == { p \in Procs : proc[p].op = "request" /\ proc[p].pc = "done" }

\* C19: a reset token is single-use: whatever the order and interleaving of
\* the submits presenting it, at most one of them returns success and
\* changes the password.
C19_TokenIsSingleUse == \A k \in 1..MaxTokens : successes[k] <= 1

\* C20: every call of request_password_reset ends by returning success=True
\* with the one generic message: for an email with or without a user, rate
\* limited or not, with the email sent or send_reset_email raising; any two
\* calls return equal Results.
C20_RequestAlwaysGenericSuccess ==
    /\ \A p \in EndedRequests :
        /\ proc[p].res # None
        /\ proc[p].res[1].success
        /\ proc[p].res[1].error = None
        /\ proc[p].res[1].message = "If that email exists, we've sent reset instructions."
    /\ \A p, q \in EndedRequests : proc[p].res = proc[q].res

\* C20 witness: a rate limited request for an email without a user and a
\* request for a user whose email could not be sent have both returned.
C20_LimitedAndEmailFailedReturned ==
    \E p, q \in EndedRequests :
        /\ proc[p].email \notin Users
        /\ proc[p].log = <<"password_reset.rate_limited">>
        /\ proc[q].email \in Users
        /\ "password_reset.email_failed" \in Range(proc[q].log)
        /\ users[proc[q].email].reset_token_hash = Some(hash_token(proc[q].token))

\* C21: the cache holds an entry only for a hot or a warm query, under the
\* query's key, with ttl 300 for hot and 600 for warm and the rows of the
\* latest write as value; a hot or warm call that got past its store query
\* issued the cache write, a cold call never does.
C21_CacheWritePolicy ==
    /\ \A q \in Queries :
        LET k == _build_cache_key(q)
            strat == _get_cache_strategy(q.start_date, now)
        IN  cache[k] # None =>
                /\ strat \in {"hot", "warm"}
                /\ strat = "hot" => cache[k][1].ttl = 300
                /\ strat = "warm" => cache[k][1].ttl = 600
                /\ written[k] # None
                /\ cache[k][1].value = json_dumps(written[k][1])
    /\ \A t \in Tasks :
        /\ (strategy[t] \in {"hot", "warm"} /\ Issued(t, "db.execute(mv_metadata)")) =>
            Issued(t, "redis.setex")
        /\ strategy[t] = "cold" => ~Issued(t, "redis.setex")

\* C21 witness: the cache holds a hot query's rows with ttl 300 and a warm
\* query's rows with ttl 600, written by two calls.
C21_HotAndWarmEntriesCached ==
    \E t, u \in Tasks :
        /\ strategy[t] = "hot" /\ strategy[u] = "warm"
        /\ cache[KeyOf(t)] = Some([value |-> <<"[", "r1", "]">>, ttl |-> 300])
        /\ cache[KeyOf(u)] = Some([value |-> <<"[", "r1", "]">>, ttl |-> 600])

\* C22: cache operations are not gated: while a call is inside a cache read
\* or a cache write, every permit taken is held by a call inside its store
\* query, so none by the call at the cache; and when the only calls still
\* running are at cache operations, all permits are free.
C22_CacheOpsHoldNoPermit ==
    /\ \A t \in Tasks :
        pc[t] \in {"cache_get", "cache_set"} =>
            /\ t \notin InFlight
            /\ MaxConcurrent - sem = Cardinality(InFlight)
    /\ (\A t \in Tasks : pc[t] \in Suspended => pc[t] \in {"cache_get", "cache_set"})
          => sem = MaxConcurrent

\* C22 witness: one call is inside its cache write while another call holds
\* the only permit the first one gave back.
C22_PermitReusedDuringCacheWrite ==
    \E t, u \in Tasks :
        /\ pc[t] = "cache_set"
        /\ pc[u] = "query"
        /\ sem = 0

\* C23: a running batch, larger than the gate or not, eventually returns,
\* and every call queued at the gate eventually gets a permit and starts
\* its store query (unless its caller cancels it first): waiting on the
\* gate never deadlocks.
C23_BatchEventuallyReturns ==
    /\ (batch.state = "running") ~> (batch.state = "returned")
    /\ \A t \in Tasks :
        (pc[t] = "gate") ~> (Issued(t, "db.execute(view)") \/ pc[t] = "cancelled")

\* C23 witness: a batch of more queries than permits has returned, every
\* child having missed the cache, gone through the gate and returned.
C23_OversizedBatchReturned ==
    /\ batch.state = "returned"
    /\ Len(batch.tasks) > MaxConcurrent
    /\ \A t \in BatchTasks :
        /\ Issued(t, "redis.get")
        /\ Issued(t, "db.execute(view)")
        /\ pc[t] = "done"

\* The calls of the log for the key of call i that returned True, were made
\* before call number n and lie less than 15 minutes before call i
AdmittedInWindow(i, n) ==
    { j \in 1..(n - 1) :
        /\ rlLog[j].key = rlLog[i].key
        /\ rlLog[j].ok
        /\ rlLog[j].at > rlLog[i].at - 15 }

\* The numbers of the calls made for a key
CallsFor(key) == { i \in 1..Len(rlLog) : rlLog[i].key = key }

\* The time of the latest call for a key
LastCallAt(key) == rlLog[CHOOSE i \in CallsFor(key) : \A j \in CallsFor(key) : j <= i].at

\* C24: check_rate_limit over calls at non-decreasing times: a call returns
\* True exactly when fewer than 3 calls for its key returned True in the 15
\* minutes before it, so no 15-minute window holds more than 3 admitted calls
\* and a key is admitted again once its attempts are 15 minutes old; the
\* stored history of a key is the admitted calls for that key of the 15
\* minutes before its latest call, never more than 3: a refused call adds
\* nothing to it and calls for another key do not touch it.
C24_SlidingWindowOfThree ==
    /\ \A i \in 1..Len(rlLog) :
        /\ rlLog[i].ok <=> Cardinality(AdmittedInWindow(i, i)) < 3
        /\ Cardinality(AdmittedInWindow(i, i + 1)) <= 3
    /\ \A key \in RateKeys :
        /\ Len(attempts[key]) <= 3
        /\ CallsFor(key) = {} => attempts[key] = << >>
        /\ CallsFor(key) # {} =>
            LET kept == SelectSeq(rlLog, LAMBDA c :
                            c.key = key /\ c.ok /\ c.at > LastCallAt(key) - 15)
            IN  attempts[key] = [n \in 1..Len(kept) |-> kept[n].at]

\* C24 witness: three calls for a key were admitted at minute 0, a fourth at
\* minute 10 was refused and left the history alone, a fifth at minute 15 was
\* admitted again, and the one call for the other key kept its own history.
C24_RefusedThenAdmittedAgain ==
    /\ Len(rlLog) = 6
    /\ \E key, other \in RateKeys :
        /\ key # other
        /\ \A i \in 1..3 : rlLog[i] = [key |-> key, at |-> 0, ok |-> TRUE]
        /\ rlLog[4] = [key |-> other, at |-> 5, ok |-> TRUE]
        /\ rlLog[5] = [key |-> key, at |-> 10, ok |-> FALSE]
        /\ rlLog[6] = [key |-> key, at |-> 15, ok |-> TRUE]
        /\ attempts[key] = <<15>>
        /\ attempts[other] = <<5>>

\* C25: only the latest token of a user is valid: a submit that ends while
\* the user's row stores a token issued after the one it presents fails
\* with INVALID_TOKEN and leaves the users table as it was.
C25_SupersededTokenIsRejected ==
    [][\A p \in Procs :
        ( /\ proc[p].op = "submit"
          /\ proc[p].pc # "done"
          /\ proc'[p].pc = "done"
          /\ \E u \in Users, k \in 1..MaxTokens :
                /\ k > proc[p].token
                /\ proc[p].token >= 1
                /\ users[u].reset_token_hash = Some(hash_token(k)) )
        => /\ proc'[p].res = Some(ResetFailure("invalid_token"))
           /\ users' = users]_vars

====
